---- MODULE Spec2Model ----
(***************************************************************************)
(* A model of srpc, a typed RPC-over-HTTP library (empijei/srpc).          *)
(*                                                                         *)
(* An Endpoint (method, path, request codec, response codec) yields a      *)
(* server handler (Register) and a client callable (Remote).  The model    *)
(* follows one exchange per call id through the client callable, the       *)
(* network client and the registered handler.                              *)
(*                                                                         *)
(* Byte streams are sequences of one-character strings.  The fixed texts   *)
(* the server writes with http.Error are carried as one token each.        *)
(***************************************************************************)
EXTENDS Integers, Sequences, FiniteSets, TLC

(***************************************************************************)
(* Bounds                                                                  *)
(***************************************************************************)

\* Number of calls made on the endpoint, each one client call or one
\* inbound exchange of another client: one after the other in Spec,
\* SetupSpec and LiveSpec, all in flight at once in ConcSpec.
MaxCalls == 2

CallIds == 1..MaxCalls

(***************************************************************************)
(* Program constants                                                       *)
(***************************************************************************)

QueryKey == <<"s", "r", "p", "c">>

StatusOK == 200
StatusBadRequest == 400
StatusInternalServerError == 500

MethodGet == "GET"
MethodOptions == "OPTIONS"
MethodHead == "HEAD"
MethodPost == "POST"

JSONContentType == "application/json"
\* The Content-Type http.Error sets on the responses it writes.
TextContentType == "text/plain; charset=utf-8"

(***************************************************************************)
(* Sequence helpers                                                        *)
(***************************************************************************)

\* The index of the first occurrence of ch in s, 0 when there is none.
RECURSIVE IndexFrom(_, _, _)
IndexFrom(s, ch, i) ==
    IF i > Len(s) THEN 0
    ELSE IF s[i] = ch THEN i
    ELSE IndexFrom(s, ch, i + 1)

Index(s, ch) == IndexFrom(s, ch, 1)

HasPrefix(s, p) == Len(s) >= Len(p) /\ SubSeq(s, 1, Len(p)) = p

HasSuffix(s, p) == Len(s) >= Len(p) /\ SubSeq(s, Len(s) - Len(p) + 1, Len(s)) = p

\* strings.Split(s, sep) for a one-character separator.
RECURSIVE Split(_, _)
Split(s, sep) ==
    LET i == Index(s, sep) IN
    IF i = 0 THEN <<s>>
    ELSE <<SubSeq(s, 1, i - 1)>> \o Split(SubSeq(s, i + 1, Len(s)), sep)

(***************************************************************************)
(* net/url: QueryEscape, QueryUnescape, ParseQuery and Values.Get          *)
(***************************************************************************)

HexDigits == {"0", "1", "2", "3", "4", "5", "6", "7", "8", "9",
              "A", "B", "C", "D", "E", "F"}

\* The characters of the model's alphabet that url.QueryEscape escapes as
\* %XX, with their two hexadecimal digits.  The space is escaped as "+";
\* every other character of the alphabet is a letter or a digit.
HexOf == [ch \in {"{", "}", "\"", ":", "\\", "&", "=", "+", "%", "\n", "?"} |->
            CASE ch = "{"  -> <<"7", "B">>
              [] ch = "}"  -> <<"7", "D">>
              [] ch = "\"" -> <<"2", "2">>
              [] ch = ":"  -> <<"3", "A">>
              [] ch = "\\" -> <<"5", "C">>
              [] ch = "&"  -> <<"2", "6">>
              [] ch = "="  -> <<"3", "D">>
              [] ch = "+"  -> <<"2", "B">>
              [] ch = "%"  -> <<"2", "5">>
              [] ch = "\n" -> <<"0", "A">>
              [] ch = "?"  -> <<"3", "F">>]

\* A mutation of EscapeChar: the plus sign is left as it is.
EscapeCharKeepsPlus(ch) ==
    IF ch = " " THEN <<"+">>
    ELSE IF ch \in DOMAIN HexOf /\ ch # "+" THEN <<"%">> \o HexOf[ch]
    ELSE <<ch>>

\* url.QueryEscape of one character.
EscapeChar(ch) ==
    IF ch = " " THEN <<"+">>
    ELSE IF ch \in DOMAIN HexOf THEN <<"%">> \o HexOf[ch]
    ELSE <<ch>>

RECURSIVE QueryEscape(_)
QueryEscape(s) ==
    IF s = <<>> THEN <<>>
    ELSE EscapeChar(Head(s)) \o QueryEscape(Tail(s))

\* A byte outside the model's alphabet.
OtherByte == "<byte>"

\* url.QueryUnescape: [ok |-> FALSE] on a malformed escape.
RECURSIVE QueryUnescape(_)
QueryUnescape(s) ==
    IF s = <<>> THEN [ok |-> TRUE, val |-> <<>>]
    ELSE IF Head(s) = "%" THEN
        IF Len(s) < 3 \/ s[2] \notin HexDigits \/ s[3] \notin HexDigits
        THEN [ok |-> FALSE, val |-> <<>>]
        ELSE LET hex  == <<s[2], s[3]>>
                 hits == {ch \in DOMAIN HexOf : HexOf[ch] = hex}
                 rest == QueryUnescape(SubSeq(s, 4, Len(s)))
             IN  IF ~rest.ok THEN rest
                 ELSE [ok |-> TRUE,
                       val |-> <<IF hits = {} THEN OtherByte
                                 ELSE CHOOSE ch \in hits : TRUE>> \o rest.val]
    ELSE LET rest == QueryUnescape(Tail(s)) IN
         IF ~rest.ok THEN rest
         ELSE [ok |-> TRUE,
               val |-> <<IF Head(s) = "+" THEN " " ELSE Head(s)>> \o rest.val]

\* url.ParseQuery as URL.Query uses it: the pairs that parse, in order;
\* a pair with an empty key or a malformed escape is skipped.
RECURSIVE ParsePairs(_)
ParsePairs(segs) ==
    IF segs = <<>> THEN <<>>
    ELSE LET seg  == Head(segs)
             i    == Index(seg, "=")
             rawk == IF i = 0 THEN seg ELSE SubSeq(seg, 1, i - 1)
             rawv == IF i = 0 THEN <<>> ELSE SubSeq(seg, i + 1, Len(seg))
             k    == QueryUnescape(rawk)
             v    == QueryUnescape(rawv)
         IN  IF seg = <<>> \/ ~k.ok \/ ~v.ok
             THEN ParsePairs(Tail(segs))
             ELSE <<[key |-> k.val, val |-> v.val]>> \o ParsePairs(Tail(segs))

ParseQuery(rawQuery) == ParsePairs(Split(rawQuery, "&"))

\* url.Values.Get: the first value of the key, the empty string without one.
QueryGet(pairs, key) ==
    LET hits == {i \in 1..Len(pairs) : pairs[i].key = key} IN
    IF hits = {} THEN <<>>
    ELSE pairs[CHOOSE i \in hits : \A j \in hits : i <= j].val

(***************************************************************************)
(* Typed values                                                            *)
(*                                                                         *)
(* A value is [t |-> its Go type, s |-> its one string field].  "Req" is   *)
(* struct{B string}, "VReq" the same type with a Validate method, "Resp"   *)
(* is struct{A string} and "unit" is struct{}.                             *)
(***************************************************************************)

ReqTypes == {"Req", "VReq", "unit"}
RespTypes == {"Resp", "unit"}

Zero(T) == [t |-> T, s |-> <<>>]

\* The strings the model's requests carry: the empty string, the test's
\* "req", the characters a query string gives a meaning to, and the
\* characters a JSON string escapes.
ReqStrings == {<<>>,
               <<"r", "e", "q">>,
               <<" ", "&", "=", "+", "%">>,
               <<"\"", "\\", "?">>}

ValuesOf(T) == IF T = "unit" THEN {Zero(T)} ELSE {[t |-> T, s |-> s] : s \in ReqStrings}

\* any(req).(Validable)
IsValidable(T) == T = "VReq"

(***************************************************************************)
(* encoding/json on the model's types                                      *)
(***************************************************************************)

JSONField(T) == IF T = "Resp" THEN "A" ELSE "B"

\* A mutation of JSONEscapeChar: the quotation mark is not escaped.
JSONEscapeCharNoQuote(ch) ==
    CASE ch = "\\" -> <<"\\", "\\">>
      [] ch = "\n" -> <<"\\", "n">>
      [] ch = "&"  -> <<"\\", "u", "0", "0", "2", "6">>
      [] OTHER     -> <<ch>>

JSONEscapeChar(ch) ==
    CASE ch = "\"" -> <<"\\", "\"">>
      [] ch = "\\" -> <<"\\", "\\">>
      [] ch = "\n" -> <<"\\", "n">>
      [] ch = "&"  -> <<"\\", "u", "0", "0", "2", "6">>
      [] OTHER     -> <<ch>>

RECURSIVE JSONEscape(_)
JSONEscape(s) ==
    IF s = <<>> THEN <<>>
    ELSE JSONEscapeChar(Head(s)) \o JSONEscape(Tail(s))

\* json.Marshal of struct{X string}.
JSONMarshal(v) ==
    <<"{", "\"", JSONField(v.t), "\"", ":", "\"">> \o JSONEscape(v.s) \o <<"\"", "}">>

\* The contents of a JSON string literal, [ok |-> FALSE] when malformed.
RECURSIVE JSONUnescape(_)
JSONUnescape(s) ==
    IF s = <<>> THEN [ok |-> TRUE, val |-> <<>>]
    ELSE IF Head(s) = "\"" \/ Head(s) = "\n" THEN [ok |-> FALSE, val |-> <<>>]
    ELSE IF Head(s) = "\\" THEN
        IF Len(s) >= 2 /\ s[2] \in {"\"", "\\", "n"} THEN
            LET rest == JSONUnescape(SubSeq(s, 3, Len(s))) IN
            IF ~rest.ok THEN rest
            ELSE [ok |-> TRUE,
                  val |-> <<IF s[2] = "n" THEN "\n" ELSE s[2]>> \o rest.val]
        ELSE IF HasPrefix(s, <<"\\", "u", "0", "0", "2", "6">>) THEN
            LET rest == JSONUnescape(SubSeq(s, 7, Len(s))) IN
            IF ~rest.ok THEN rest
            ELSE [ok |-> TRUE, val |-> <<"&">> \o rest.val]
        ELSE [ok |-> FALSE, val |-> <<>>]
    ELSE LET rest == JSONUnescape(Tail(s)) IN
         IF ~rest.ok THEN rest
         ELSE [ok |-> TRUE, val |-> <<Head(s)>> \o rest.val]

\* json.NewDecoder(r).Decode(&t) for t of type T: an object with one
\* string member, or the empty object; a member t has no field for is
\* ignored.  err is what the decoder reports.
JSONDecode(T, b) ==
    IF b = <<>> THEN [ok |-> FALSE, val |-> Zero(T), err |-> "EOF"]
    ELSE IF b = <<"{", "}">> THEN [ok |-> TRUE, val |-> Zero(T), err |-> ""]
    ELSE IF /\ Len(b) >= 8
            /\ SubSeq(b, 1, 2) = <<"{", "\"">>
            /\ SubSeq(b, 4, 6) = <<"\"", ":", "\"">>
            /\ HasSuffix(b, <<"\"", "}">>)
            /\ JSONUnescape(SubSeq(b, 7, Len(b) - 2)).ok
    THEN [ok  |-> TRUE,
          val |-> IF b[3] = JSONField(T)
                  THEN [t |-> T, s |-> JSONUnescape(SubSeq(b, 7, Len(b) - 2)).val]
                  ELSE Zero(T),
          err |-> ""]
    ELSE IF HasPrefix(b, <<"{">>) /\ ~HasSuffix(b, <<"}">>)
    THEN [ok |-> FALSE, val |-> Zero(T), err |-> "unexpected EOF"]
    ELSE [ok |-> FALSE, val |-> Zero(T), err |-> "invalid character"]

(***************************************************************************)
(* Codec                                                                   *)
(*                                                                         *)
(* format and T stand for the Co and Dec functions of the Go struct:       *)
(* "json" is NewCodecJSON's pair; "text" is an application's codec that    *)
(* carries the string field as it is, whose streams are closers and whose  *)
(* functions and streams may fail.                                         *)
(***************************************************************************)

NewCodecJSON(T) ==
    [ContentType |-> JSONContentType,
     KeepOpen    |-> FALSE,
     format      |-> "json",
     isEmpty     |-> T = "unit",
     closer      |-> FALSE,
     T           |-> T]

TextCodec(T, keepOpen) ==
    [ContentType |-> TextContentType,
     KeepOpen    |-> keepOpen,
     format      |-> "text",
     isEmpty     |-> FALSE,
     closer      |-> TRUE,
     T           |-> T]

CodecsOf(T) ==
    IF T = "unit" THEN {NewCodecJSON(T)}
    ELSE {NewCodecJSON(T)} \cup {TextCodec(T, k) : k \in BOOLEAN}

\* Whether the codec's functions and streams can fail for reasons of
\* their own.  json.Marshal never fails on the model's types.
MayFail(codec) == codec.format = "text"

\* codec.Co(ctx, t): the bytes of the stream it returns.
Co(codec, v) ==
    IF codec.format = "json"
    THEN IF codec.isEmpty THEN <<>> ELSE JSONMarshal(v)
    ELSE v.s

\* A mutation of Dec: the JSON codec of the unit type decodes its stream
\* like every other JSON codec.
DecNoShortCircuit(codec, b) ==
    IF codec.format = "json"
    THEN JSONDecode(codec.T, b)
    ELSE [ok |-> TRUE, val |-> [t |-> codec.T, s |-> b], err |-> ""]

\* codec.Dec(ctx, r) on a stream holding b.
Dec(codec, b) ==
    IF codec.format = "json"
    THEN IF codec.isEmpty THEN [ok |-> TRUE, val |-> Zero(codec.T), err |-> ""]
         ELSE JSONDecode(codec.T, b)
    ELSE [ok |-> TRUE, val |-> [t |-> codec.T, s |-> b], err |-> ""]

\* Whether Dec reads its stream at all.
DecReads(codec) == ~(codec.format = "json" /\ codec.isEmpty)

(***************************************************************************)
(* Endpoint                                                                *)
(***************************************************************************)

Methods == {MethodGet, MethodOptions, MethodHead, MethodPost}

Paths == {<<"/", "f", "o", "o">>}

\* A mutation of NewEndpoint: only POST is taken as state changing.
NewEndpointPostOnly(method, path, resc, reqc) ==
    IF ~HasPrefix(path, <<"/">>)
    THEN [ok |-> FALSE]
    ELSE [ok            |-> TRUE,
          method        |-> method,
          path          |-> path,
          stateChanging |-> method = MethodPost,
          resc          |-> resc,
          reqc          |-> reqc]

\* NewEndpoint: ok is FALSE when it panics.
NewEndpoint(method, path, resc, reqc) ==
    IF ~HasPrefix(path, <<"/">>)
    THEN [ok |-> FALSE]
    ELSE [ok            |-> TRUE,
          method        |-> method,
          path          |-> path,
          stateChanging |-> method # MethodGet /\ method # MethodOptions
                                   /\ method # MethodHead,
          resc          |-> resc,
          reqc          |-> reqc]

Endpoints ==
    LET all == {NewEndpoint(m, p, resc, reqc) :
                    m \in Methods, p \in Paths,
                    resc \in UNION {CodecsOf(T) : T \in RespTypes},
                    reqc \in UNION {CodecsOf(T) : T \in ReqTypes}}
    IN  {e \in all : e.ok}

(***************************************************************************)
(* Transport                                                               *)
(***************************************************************************)

\* An origin is a sequence of tokens: a scheme, the separators of a URL,
\* a host name, and single characters.
Origin == <<"http", ":", "/", "/", "host">>

Cookies == <<"session">>

\* The scheme tokens of the model and what strings.ToLower makes of them.
SchemeTokens == {"http", "https", "HTTP", "ftp"}

ToLower(tok) == IF tok = "HTTP" THEN "http" ELSE tok

BadURL(err) ==
    [ok |-> FALSE, err |-> err, scheme |-> "", host |-> <<>>,
     path |-> <<>>, rawQuery |-> <<>>]

\* url.Parse: the scheme up to the first colon, the raw query after the
\* first question mark, the authority after "//" up to the next slash,
\* and the path, whose escapes must be well formed.  A URL with a scheme
\* and no leading slash is opaque: it has no host and no path.
ParseTokens(raw) ==
    IF raw # <<>> /\ Head(raw) = ":" THEN BadURL("missing protocol scheme")
    ELSE
    LET hasScheme == Len(raw) >= 2 /\ raw[1] \in SchemeTokens /\ raw[2] = ":"
        scheme    == IF hasScheme THEN ToLower(raw[1]) ELSE ""
        afterSch  == IF hasScheme THEN SubSeq(raw, 3, Len(raw)) ELSE raw
        q         == Index(afterSch, "?")
        rawQuery  == IF q = 0 THEN <<>> ELSE SubSeq(afterSch, q + 1, Len(afterSch))
        rest      == IF q = 0 THEN afterSch ELSE SubSeq(afterSch, 1, q - 1)
        hasAuth   == HasPrefix(rest, <<"/", "/">>)
        afterAuth == IF hasAuth THEN SubSeq(rest, 3, Len(rest)) ELSE rest
        slash     == Index(afterAuth, "/")
        host      == IF ~hasAuth THEN <<>>
                     ELSE IF slash = 0 THEN afterAuth
                     ELSE SubSeq(afterAuth, 1, slash - 1)
        path      == IF ~hasAuth THEN rest
                     ELSE IF slash = 0 THEN <<>>
                     ELSE SubSeq(afterAuth, slash, Len(afterAuth))
    IN  IF ~HasPrefix(rest, <<"/">>) /\ hasScheme
        THEN [ok |-> TRUE, err |-> "", scheme |-> scheme, host |-> <<>>,
              path |-> <<>>, rawQuery |-> rawQuery]
        ELSE IF Index(host, " ") # 0 THEN BadURL("invalid character in host name")
        ELSE IF ~QueryUnescape(path).ok THEN BadURL("invalid URL escape")
        ELSE [ok |-> TRUE, err |-> "", scheme |-> scheme, host |-> host,
              path |-> path, rawQuery |-> rawQuery]

\* url.Parse(rawURL), the string taken by value.
URLParse(rawURL) == CHOOSE u \in {ParseTokens(raw) : raw \in {rawURL}} : TRUE

\* NewTransport: (nil, err) with err wrapping ErrBadOrigin when the origin
\* does not parse, its scheme is neither "http" nor "https" in any case of
\* the letters, or its path or its raw query is not empty; a nil client
\* becomes http.DefaultClient.
NewTransport(origin, client, cookies) ==
    LET u == URLParse(origin) IN
    IF ~u.ok THEN [ok |-> FALSE, err |-> {"ErrBadOrigin", "invalid URL"}]
    ELSE IF u.scheme # "http" /\ u.scheme # "https"
    THEN [ok |-> FALSE, err |-> {"ErrBadOrigin", "scheme"}]
    ELSE IF u.path # <<>>
    THEN [ok |-> FALSE, err |-> {"ErrBadOrigin", "path"}]
    ELSE IF u.rawQuery # <<>>
    THEN [ok |-> FALSE, err |-> {"ErrBadOrigin", "query"}]
    ELSE [ok      |-> TRUE,
          origin  |-> origin,
          client  |-> IF client = "nil" THEN "http.DefaultClient" ELSE client,
          cookies |-> cookies]

\* RemoteWithOrigin up to its call of Remote: the Transport of the origin,
\* or the panic with NewTransport's error.
RemoteWithOrigin(origin) ==
    LET conn == NewTransport(origin, "nil", <<>>) IN
    IF conn.ok THEN conn
    ELSE [ok |-> FALSE, err |-> conn.err, panic |-> TRUE]

(***************************************************************************)
(* net/http: StatusText and Error                                          *)
(***************************************************************************)

StatusText(code) ==
    CASE code = 200 -> "OK"
      [] code = 201 -> "Created"
      [] code = 400 -> "Bad Request"
      [] code = 404 -> "Not Found"
      [] code = 500 -> "Internal Server Error"
      [] OTHER      -> ""

\* http.Error(w, msg, code) on a response writer whose header is not yet
\* written: the text content type, the status, and msg followed by a
\* line feed (fmt.Fprintln).
HTTPError(w, msg, code) ==
    [w EXCEPT !.contentType  = TextContentType,
              !.status       = code,
              !.statusWrites = @ + 1,
              !.body         = msg \o <<"\n">>]

(***************************************************************************)
(* The application's side: the procedure and the request's Validate        *)
(***************************************************************************)

ErrStatuses == {200, 201, 404}

ErrMessages == {<<>>, <<"missing">>}

NoError == [kind |-> "nil", Status |-> 0, Message |-> <<>>]

\* The errors a procedure returns: a plain error, or one that is an
\* ErrorResponse (such as *WireError) with its Status and Message.
ProcErrors ==
    {[kind |-> "plain", Status |-> 0, Message |-> <<>>]}
    \cup {[kind |-> "ErrorResponse", Status |-> st, Message |-> m] :
              st \in ErrStatuses, m \in ErrMessages}

\* The value the procedure returns on success: "resp"+req.B as in the
\* round-trip test, a fixed value for the unit request.
ProcValue(respT, req) ==
    IF respT = "unit" THEN Zero(respT)
    ELSE IF req.t = "unit" THEN [t |-> respT, s |-> <<"b", "a", "r">>]
    ELSE [t |-> respT, s |-> <<"r", "e", "s", "p">> \o req.s]

(***************************************************************************)
(* Pure steps of Register's handler and of Remote's callable               *)
(***************************************************************************)

\* The pattern Register binds on the mux.
Pattern(e) == <<e.method, " ">> \o e.path

\* A mutation of reqCtor: the query parameter is added for every method.
reqCtorAlwaysQuery(e, conn, buf) ==
    [method  |-> e.method,
     url     |-> URLParse(conn.origin \o e.path
                          \o <<"?">> \o QueryKey \o <<"=">> \o QueryEscape(buf)),
     hasBody |-> e.stateChanging,
     body    |-> IF e.stateChanging THEN buf ELSE <<>>,
     header  |-> "",
     cookies |-> <<>>]

\* The request constructor Remote selects.  buf is the content of
\* streamUp; the read-only constructor reads it whole and sends no body.
reqCtor(e, conn, buf) ==
    IF e.stateChanging
    THEN [method  |-> e.method,
          url     |-> URLParse(conn.origin \o e.path),
          hasBody |-> TRUE,
          body    |-> buf,
          header  |-> "",
          cookies |-> <<>>]
    ELSE [method  |-> e.method,
          url     |-> URLParse(conn.origin \o e.path
                               \o <<"?">> \o QueryKey \o <<"=">> \o QueryEscape(buf)),
          hasBody |-> FALSE,
          body    |-> <<>>,
          header  |-> "",
          cookies |-> <<>>]

\* Which of the two channels the handler reads.
HandlerChannel(e) == IF e.stateChanging THEN "body" ELSE "query"

\* streamUp of the handler: the body, or the QueryKey query parameter.
HandlerSource(e, r) ==
    IF HandlerChannel(e) = "body"
    THEN r.body
    ELSE QueryGet(ParseQuery(r.url.rawQuery), QueryKey)

\* A mutation of ErrorStatus: the error's own status is not used.
ErrorStatusDefault(err) == StatusBadRequest

\* The status and the message the handler sends for a procedure error.
ErrorStatus(err) ==
    IF err.kind = "ErrorResponse" THEN err.Status ELSE StatusBadRequest

ErrorMessage(err) ==
    LET msg == IF err.kind = "ErrorResponse" THEN err.Message ELSE <<>> IN
    IF msg = <<>> THEN <<StatusText(ErrorStatus(err))>> ELSE msg

\* A mutation of IsSuccess: every 2xx status is a success.
IsSuccessAny2xx(code) == code >= 200 /\ code < 300

\* The client's test of the response status.
IsSuccess(code) == code = StatusOK

\* A mutation of ContentTypeOK: the Content-Type is not looked at.
ContentTypeUnchecked(ct, codec) == TRUE

\* The client's test of the response's Content-Type.
ContentTypeOK(ct, codec) == ct = codec.ContentType

(***************************************************************************)
(* State                                                                   *)
(***************************************************************************)

VARIABLES
    endpoint,   \* the Endpoint shared by Register and Remote
    transport,  \* the Transport the callable is bound to
    mux,        \* the patterns registered on the mux
    nextCall,   \* the call id of the next call to be made
    client,     \* per call id: the client callable's frame
    hReq,       \* per call id: the exchange on the wire
    handler,    \* per call id: the handler run of the exchange
    hResp,      \* per call id: the handler's response writer
    log         \* per call id: what the handler logged

vars == <<endpoint, transport, mux, nextCall, client, hReq, handler, hResp, log>>

NoExchange ==
    [method |-> "", url |-> URLParse(<<>>), hasBody |-> FALSE,
     body |-> <<>>, header |-> "", cookies |-> <<>>]

NoResponse == [StatusCode |-> 0, ContentType |-> "", Body |-> <<>>, broken |-> FALSE]

NoWireError == [Code |-> 0, Msg |-> <<>>]

ClientInit ==
    [pc            |-> "idle",
     req           |-> Zero("unit"),
     streamUp      |-> <<>>,         \* the content of the request stream
     hResp         |-> NoResponse,   \* the response Do returned
     deferBody     |-> FALSE,        \* the deferred hResp.Body.Close is set
     deferReq      |-> FALSE,        \* the deferred streamUp Close is set
     resp          |-> Zero("unit"), \* the result resp
     errs          |-> {},           \* the result err: the errors it holds
     wire          |-> NoWireError,  \* the *WireError among them, if any
     closeErrs     |-> {},           \* the Close calls that returned an error
     roundTrips    |-> 0,            \* calls of conn.client.Do
     decRuns       |-> 0,            \* calls of e.resc.Dec
     decFault      |-> FALSE,        \* e.resc.Dec failed for a reason of its own
     bodyCloses    |-> 0,            \* calls of hResp.Body.Close
     streamCloses  |-> 0,            \* calls of streamUp's Close
     bodyClosedByDo |-> FALSE,       \* the network client closed hReq.Body
     ctx           |-> "live"]       \* the call's context

HandlerInit ==
    [pc         |-> "idle",
     channel    |-> "",              \* the channel streamUp was taken from
     req        |-> Zero("unit"),
     decoded    |-> FALSE,
     validated  |-> FALSE,
     invalid    |-> FALSE,           \* Validate returned an error
     procCalls  |-> 0,
     procErr    |-> NoError,
     procResp   |-> Zero("unit"),
     streamDown |-> <<>>,
     steps      |-> <<>>]            \* the steps run, in order

WriterInit ==
    [status |-> 0, contentType |-> "", body |-> <<>>, statusWrites |-> 0,
     truncated |-> FALSE]

ReqT == endpoint.reqc.T
RespT == endpoint.resc.T

Init ==
    /\ endpoint \in Endpoints
    /\ transport = NewTransport(Origin, "nil", Cookies)
    /\ mux = {}
    /\ nextCall = 1
    /\ client = [c \in CallIds |-> ClientInit]
    /\ hReq = [c \in CallIds |-> NoExchange]
    /\ handler = [c \in CallIds |-> HandlerInit]
    /\ hResp = [c \in CallIds |-> WriterInit]
    /\ log = [c \in CallIds |-> <<>>]

(***************************************************************************)
(* Server: Register and the handler it binds                               *)
(***************************************************************************)

Register ==
    /\ endpoint.ok
    /\ Pattern(endpoint) \notin mux
    /\ mux' = mux \cup {Pattern(endpoint)}
    /\ UNCHANGED <<endpoint, transport, nextCall, client, hReq, handler, hResp, log>>

LogEntry(level, msg, detail) == [level |-> level, msg |-> msg, detail |-> detail]

\* The handler logs, answers with http.Error and returns; h is its frame.
Fail(c, h, entry, msg, code) ==
    /\ handler' = [handler EXCEPT ![c] = [h EXCEPT !.pc = "done"]]
    /\ hResp' = [hResp EXCEPT ![c] = HTTPError(@, msg, code)]
    /\ log' = [log EXCEPT ![c] = Append(@, entry)]

\* A mutation of HandlerDecode: the decode error is sent to the client.
HandlerDecodeLeaky(c) ==
    /\ handler[c].pc = "decode"
    /\ LET src == HandlerSource(endpoint, hReq[c])
           d   == Dec(endpoint.reqc, src)
           h   == [handler[c] EXCEPT !.steps = Append(@, "decode"),
                                     !.channel = HandlerChannel(endpoint)]
       IN  \E fault \in {FALSE, MayFail(endpoint.reqc)} :
             IF fault \/ ~d.ok
             THEN Fail(c, h,
                       LogEntry("Info", "Bad request",
                                IF fault THEN "codec" ELSE d.err),
                       <<"Unable to decode request.", IF fault THEN "codec" ELSE d.err>>,
                       StatusBadRequest)
             ELSE /\ handler' = [handler EXCEPT ![c] =
                        [h EXCEPT !.pc = "validate", !.req = d.val, !.decoded = TRUE]]
                  /\ UNCHANGED <<hResp, log>>
    /\ UNCHANGED <<endpoint, transport, mux, nextCall, client, hReq>>

\* Lines 80-94: select the payload source and decode the request.
HandlerDecode(c) ==
    /\ handler[c].pc = "decode"
    /\ LET src == HandlerSource(endpoint, hReq[c])
           d   == Dec(endpoint.reqc, src)
           h   == [handler[c] EXCEPT !.steps = Append(@, "decode"),
                                     !.channel = HandlerChannel(endpoint)]
       IN  \E fault \in {FALSE, MayFail(endpoint.reqc)} :
             IF fault \/ ~d.ok
             THEN Fail(c, h,
                       LogEntry("Info", "Bad request",
                                IF fault THEN "codec" ELSE d.err),
                       <<"Unable to decode request.">>, StatusBadRequest)
             ELSE /\ handler' = [handler EXCEPT ![c] =
                        [h EXCEPT !.pc = "validate", !.req = d.val, !.decoded = TRUE]]
                  /\ UNCHANGED <<hResp, log>>
    /\ UNCHANGED <<endpoint, transport, mux, nextCall, client, hReq>>

\* A mutation of HandlerValidate: the handler answers a failed validation
\* and goes on to the procedure (the return is missing).
HandlerValidateNoReturn(c) ==
    /\ handler[c].pc = "validate"
    /\ LET h == [handler[c] EXCEPT !.steps = Append(@, "validate")] IN
       \E verr \in {FALSE, IsValidable(ReqT)} :
         IF verr
         THEN /\ handler' = [handler EXCEPT ![c] =
                    [h EXCEPT !.pc = "invoke", !.invalid = TRUE]]
              /\ hResp' = [hResp EXCEPT ![c] =
                    HTTPError(@, <<"Invalid request.">>, StatusBadRequest)]
              /\ log' = [log EXCEPT ![c] =
                    Append(@, LogEntry("Info", "Invalid request", "validating"))]
         ELSE /\ handler' = [handler EXCEPT ![c] =
                    [h EXCEPT !.pc = "invoke", !.validated = TRUE]]
              /\ UNCHANGED <<hResp, log>>
    /\ UNCHANGED <<endpoint, transport, mux, nextCall, client, hReq>>

\* Lines 98-105: the validation gate.
HandlerValidate(c) ==
    /\ handler[c].pc = "validate"
    /\ LET h == [handler[c] EXCEPT !.steps = Append(@, "validate")] IN
       \E verr \in {FALSE, IsValidable(ReqT)} :
         IF verr
         THEN Fail(c, [h EXCEPT !.invalid = TRUE],
                   LogEntry("Info", "Invalid request", "validating"),
                   <<"Invalid request.">>, StatusBadRequest)
         ELSE /\ handler' = [handler EXCEPT ![c] =
                    [h EXCEPT !.pc = "invoke", !.validated = TRUE]]
              /\ UNCHANGED <<hResp, log>>
    /\ UNCHANGED <<endpoint, transport, mux, nextCall, client, hReq>>

\* A mutation of HandlerInvoke: the decoded request is kept in one place
\* for all the runs of the handler, so the procedure is given the request
\* of the first exchange.
HandlerInvokeSharedRequest(c) ==
    /\ handler[c].pc = "invoke"
    /\ LET h == [handler[c] EXCEPT !.steps = Append(@, "invoke"),
                                   !.procCalls = @ + 1] IN
       \E err \in {NoError} \cup ProcErrors :
         IF err # NoError
         THEN Fail(c, [h EXCEPT !.procErr = err],
                   LogEntry("Info", "Handler Error", "processing"),
                   ErrorMessage(err), ErrorStatus(err))
         ELSE /\ handler' = [handler EXCEPT ![c] =
                    [h EXCEPT !.pc = "encode",
                              !.procResp = ProcValue(RespT, handler[1].req)]]
              /\ UNCHANGED <<hResp, log>>
    /\ UNCHANGED <<endpoint, transport, mux, nextCall, client, hReq>>

\* Lines 110-128: invoke the procedure and map its error.
HandlerInvoke(c) ==
    /\ handler[c].pc = "invoke"
    /\ LET h == [handler[c] EXCEPT !.steps = Append(@, "invoke"),
                                   !.procCalls = @ + 1] IN
       \E err \in {NoError} \cup ProcErrors :
         IF err # NoError
         THEN Fail(c, [h EXCEPT !.procErr = err],
                   LogEntry("Info", "Handler Error", "processing"),
                   ErrorMessage(err), ErrorStatus(err))
         ELSE /\ handler' = [handler EXCEPT ![c] =
                    [h EXCEPT !.pc = "encode",
                              !.procResp = ProcValue(RespT, handler[c].req)]]
              /\ UNCHANGED <<hResp, log>>
    /\ UNCHANGED <<endpoint, transport, mux, nextCall, client, hReq>>

\* A mutation of HandlerEncode: the handler answers a failed encoding and
\* goes on to send (the return is missing).
HandlerEncodeNoReturn(c) ==
    /\ handler[c].pc = "encode"
    /\ LET h == [handler[c] EXCEPT !.steps = Append(@, "encode")] IN
       \E fault \in {FALSE, MayFail(endpoint.resc)} :
         IF fault
         THEN /\ handler' = [handler EXCEPT ![c] = [h EXCEPT !.pc = "send"]]
              /\ hResp' = [hResp EXCEPT ![c] =
                    HTTPError(@, <<"Failed to encode response.">>,
                              StatusInternalServerError)]
              /\ log' = [log EXCEPT ![c] =
                    Append(@, LogEntry("Warn", "Encoder Error", "encoding"))]
         ELSE /\ handler' = [handler EXCEPT ![c] =
                    [h EXCEPT !.pc = "send",
                              !.streamDown = Co(endpoint.resc, handler[c].procResp)]]
              /\ UNCHANGED <<hResp, log>>
    /\ UNCHANGED <<endpoint, transport, mux, nextCall, client, hReq>>

\* Lines 129-135: encode the response.
HandlerEncode(c) ==
    /\ handler[c].pc = "encode"
    /\ LET h == [handler[c] EXCEPT !.steps = Append(@, "encode")] IN
       \E fault \in {FALSE, MayFail(endpoint.resc)} :
         IF fault
         THEN Fail(c, h,
                   LogEntry("Warn", "Encoder Error", "encoding"),
                   <<"Failed to encode response.">>, StatusInternalServerError)
         ELSE /\ handler' = [handler EXCEPT ![c] =
                    [h EXCEPT !.pc = "send",
                              !.streamDown = Co(endpoint.resc, handler[c].procResp)]]
              /\ UNCHANGED <<hResp, log>>
    /\ UNCHANGED <<endpoint, transport, mux, nextCall, client, hReq>>

\* Lines 139-152: set the Content-Type, copy the stream to the response
\* writer (the first write, or the handler's return, commits status 200)
\* and close the stream if it is a closer.  Copy and close errors are
\* logged.
HandlerSend(c) ==
    /\ handler[c].pc = "send"
    /\ \E copyErr \in BOOLEAN, closeErr \in {FALSE, endpoint.resc.closer} :
         /\ hResp' = [hResp EXCEPT ![c] =
                [@ EXCEPT !.contentType  = endpoint.resc.ContentType,
                          !.status       = StatusOK,
                          !.statusWrites = @ + 1,
                          !.body         = IF copyErr THEN <<>> ELSE handler[c].streamDown,
                          !.truncated    = copyErr]]
         /\ log' = [log EXCEPT ![c] =
                @ \o (IF copyErr
                      THEN <<LogEntry("Info", "streamDown Copy", "copy")>>
                      ELSE <<>>)
                  \o (IF closeErr
                      THEN <<LogEntry("Info", "streamDown Close", "close")>>
                      ELSE <<>>)]
    /\ handler' = [handler EXCEPT ![c].pc = "done", ![c].steps = Append(@, "send")]
    /\ UNCHANGED <<endpoint, transport, mux, nextCall, client, hReq>>

\* The exchanges another client sends to the registered pattern: a
\* payload in the body, in the query, or a different one in each.
ForeignExchanges ==
    LET valid(x) == JSONMarshal([t |-> "Req", s |-> x])
        q(v)     == QueryKey \o <<"=">> \o v
    IN  {[body |-> <<>>, rawQuery |-> <<>>],
         [body |-> <<"{">>, rawQuery |-> <<>>],
         [body |-> <<"x">>, rawQuery |-> q(<<"%", "z", "z">>)],
         [body |-> valid(<<"r", "e", "q">>), rawQuery |-> q(<<"%", "7", "B">>)],
         [body |-> valid(<<"r", "e", "q">>),
          rawQuery |-> q(QueryEscape(valid(<<"q">>))) \o <<"&">> \o q(<<"x">>)]}

InboundExchange(c) ==
    /\ c = nextCall
    /\ client[c].pc = "idle"
    /\ endpoint.ok
    /\ Pattern(endpoint) \in mux
    /\ \E x \in ForeignExchanges :
         hReq' = [hReq EXCEPT ![c] =
            [method  |-> endpoint.method,
             url     |-> URLParse(endpoint.path \o
                                  (IF x.rawQuery = <<>> THEN <<>>
                                   ELSE <<"?">> \o x.rawQuery)),
             hasBody |-> x.body # <<>>,
             body    |-> x.body,
             header  |-> endpoint.reqc.ContentType,
             cookies |-> <<>>]]
    /\ client' = [client EXCEPT ![c].pc = "foreign"]
    /\ handler' = [handler EXCEPT ![c].pc = "decode"]
    /\ UNCHANGED <<endpoint, transport, mux, nextCall, hResp, log>>

(***************************************************************************)
(* Client: the callable Remote returns                                     *)
(***************************************************************************)

\* The callable returns (resp, err) from frame f, no deferred call set.
Return(c, f, resp, errs) ==
    client' = [client EXCEPT ![c] =
        [f EXCEPT !.pc = "returned", !.resp = resp, !.errs = errs]]

\* The caller calls the callable Remote returned with a request.
Call(c) ==
    /\ c = nextCall
    /\ client[c].pc = "idle"
    /\ endpoint.ok
    /\ transport.ok
    /\ \E r \in ValuesOf(ReqT) :
         client' = [client EXCEPT ![c].pc = "encode", ![c].req = r]
    /\ UNCHANGED <<endpoint, transport, mux, nextCall, hReq, handler, hResp, log>>

\* Lines 235-238: encode the request.
ClientEncode(c) ==
    /\ client[c].pc = "encode"
    /\ \E fault \in {FALSE, MayFail(endpoint.reqc)} :
         IF fault
         THEN Return(c, client[c], Zero(RespT), {"encoding request"})
         ELSE client' = [client EXCEPT
                  ![c].pc = "build",
                  ![c].streamUp = Co(endpoint.reqc, client[c].req)]
    /\ UNCHANGED <<endpoint, transport, mux, nextCall, hReq, handler, hResp, log>>

\* Lines 239-246: build the exchange, set its Content-Type and cookies.
\* Only the read-only constructor reads streamUp, and the read may fail;
\* http.NewRequestWithContext fails on a URL that does not parse.
ClientBuild(c) ==
    /\ client[c].pc = "build"
    /\ \E r \in {reqCtor(endpoint, transport, client[c].streamUp)},
          fault \in {FALSE, ~endpoint.stateChanging /\ MayFail(endpoint.reqc)} :
         IF fault \/ ~r.url.ok
         THEN /\ Return(c, client[c], Zero(RespT),
                        {"converting request to HTTP"}
                            \cup (IF fault THEN {} ELSE {"invalid URL"}))
              /\ UNCHANGED hReq
         ELSE /\ hReq' = [hReq EXCEPT ![c] =
                    [r EXCEPT !.header = endpoint.reqc.ContentType,
                              !.cookies = transport.cookies]]
              /\ client' = [client EXCEPT ![c].pc = "do"]
    /\ UNCHANGED <<endpoint, transport, mux, nextCall, handler, hResp, log>>

\* A mutation of ClientDoFail: a failed round trip is tried again.
ClientDoFailRetry(c) ==
    /\ client[c].pc = "do"
    /\ client[c].ctx = "live"
    /\ client' = [client EXCEPT ![c].roundTrips = @ + 1,
                                ![c].bodyClosedByDo = hReq[c].hasBody]
    /\ UNCHANGED <<endpoint, transport, mux, nextCall, hReq, handler, hResp, log>>

\* Lines 252-255: conn.client.Do fails before the exchange reaches the
\* server; it always does for a URL without a host.  The network client
\* closes the body of a request it was given.
ClientDoFail(c) ==
    /\ client[c].pc = "do"
    /\ client[c].ctx = "live" \/ hReq[c].url.host = <<>>
    /\ Return(c, [client[c] EXCEPT !.roundTrips = @ + 1,
                                   !.bodyClosedByDo = hReq[c].hasBody],
              Zero(RespT),
              {"issuing request"}
                  \cup (IF hReq[c].url.host = <<>>
                        THEN {"no Host in request URL"} ELSE {}))
    /\ UNCHANGED <<endpoint, transport, mux, nextCall, hReq, handler, hResp, log>>

\* Line 252: conn.client.Do sends the exchange; the mux runs the handler.
ClientDoSend(c) ==
    /\ client[c].pc = "do"
    /\ client[c].ctx = "live"
    /\ hReq[c].url.host # <<>>
    /\ Pattern(endpoint) \in mux
    /\ client' = [client EXCEPT ![c].pc = "wait",
                                ![c].roundTrips = @ + 1,
                                ![c].bodyClosedByDo = hReq[c].hasBody]
    /\ handler' = [handler EXCEPT ![c].pc = "decode"]
    /\ UNCHANGED <<endpoint, transport, mux, nextCall, hReq, hResp, log>>

\* The caller cancels the call's context, or its deadline passes, before
\* Do has returned a response.
CtxCancel(c) ==
    /\ client[c].pc \in {"encode", "build", "do", "wait"}
    /\ client[c].ctx = "live"
    /\ client' = [client EXCEPT ![c].ctx = "canceled"]
    /\ UNCHANGED <<endpoint, transport, mux, nextCall, hReq, handler, hResp, log>>

\* A mutation of ClientDoCanceled: Do does not watch the context.
ClientDoIgnoresCtx(c) ==
    /\ client[c].pc \in {"do", "wait"}
    /\ client[c].ctx = "canceled"
    /\ hReq[c].url.host # <<>>
    /\ UNCHANGED vars

\* Lines 252-255: Do, called with or holding a request whose context is
\* canceled, returns the context's error.
ClientDoCanceled(c) ==
    /\ client[c].pc \in {"do", "wait"}
    /\ client[c].ctx = "canceled"
    /\ hReq[c].url.host # <<>>
    /\ Return(c, [client[c] EXCEPT
                    !.roundTrips = IF client[c].pc = "do" THEN @ + 1 ELSE @,
                    !.bodyClosedByDo = hReq[c].hasBody],
              Zero(RespT), {"issuing request", "context canceled"})
    /\ UNCHANGED <<endpoint, transport, mux, nextCall, hReq, handler, hResp, log>>

\* Lines 252-274: Do returns the handler's response and the callable sets
\* its deferred closes.  The body cannot be read in full when the
\* handler's copy failed or the network lost it.
ClientDoReturn(c) ==
    /\ client[c].pc = "wait"
    /\ client[c].ctx = "live"
    /\ handler[c].pc = "done"
    /\ \E lost \in {FALSE, ~hResp[c].truncated} :
         client' = [client EXCEPT
            ![c].pc = "status",
            ![c].hResp = [StatusCode  |-> hResp[c].status,
                          ContentType |-> hResp[c].contentType,
                          Body        |-> hResp[c].body,
                          broken      |-> lost \/ hResp[c].truncated],
            ![c].deferBody = ~endpoint.resc.KeepOpen,
            ![c].deferReq = ~endpoint.reqc.KeepOpen /\ endpoint.reqc.closer]
    /\ UNCHANGED <<endpoint, transport, mux, nextCall, hReq, handler, hResp, log>>

\* Lines 316-323: readErr.  ReadAll's error is returned before the close
\* is deferred; the close's own error is discarded.
readErr(c, f) ==
    IF f.hResp.broken
    THEN client' = [client EXCEPT ![c] =
            [f EXCEPT !.pc = "deferReq",
                      !.resp = Zero(RespT),
                      !.errs = {"read response body"}]]
    ELSE \E cerr \in BOOLEAN :
           client' = [client EXCEPT ![c] =
            [f EXCEPT !.pc = "deferReq",
                      !.resp = Zero(RespT),
                      !.errs = {"WireError"},
                      !.wire = [Code |-> f.hResp.StatusCode, Msg |-> f.hResp.Body],
                      !.bodyCloses = @ + 1,
                      !.closeErrs = @ \cup (IF cerr THEN {"readErr Body.Close"} ELSE {})]]

\* Lines 278-280: interpret the status.
ClientStatus(c) ==
    /\ client[c].pc = "status"
    /\ IF ~IsSuccess(client[c].hResp.StatusCode)
       THEN readErr(c, client[c])
       ELSE client' = [client EXCEPT ![c].pc = "contentType"]
    /\ UNCHANGED <<endpoint, transport, mux, nextCall, hReq, handler, hResp, log>>

\* Lines 281-283: the Content-Type check.
ClientContentType(c) ==
    /\ client[c].pc = "contentType"
    /\ IF ~ContentTypeOK(client[c].hResp.ContentType, endpoint.resc)
       THEN client' = [client EXCEPT ![c].pc = "deferReq",
                                     ![c].resp = Zero(RespT),
                                     ![c].errs = {"Content-Type"}]
       ELSE client' = [client EXCEPT ![c].pc = "decode"]
    /\ UNCHANGED <<endpoint, transport, mux, nextCall, hReq, handler, hResp, log>>

\* Lines 284-288: decode the response.
ClientDecode(c) ==
    /\ client[c].pc = "decode"
    /\ LET d == Dec(endpoint.resc, client[c].hResp.Body)
           readFails == client[c].hResp.broken /\ DecReads(endpoint.resc)
       IN  \E fault \in {FALSE, MayFail(endpoint.resc)} :
             client' = [client EXCEPT ![c] =
                [@ EXCEPT !.pc = "deferReq",
                          !.decRuns = @ + 1,
                          !.decFault = fault,
                          !.resp = IF fault \/ readFails \/ ~d.ok
                                   THEN Zero(RespT) ELSE d.val,
                          !.errs = IF fault \/ readFails \/ ~d.ok
                                   THEN {"decoding response"} ELSE {}]]
    /\ UNCHANGED <<endpoint, transport, mux, nextCall, hReq, handler, hResp, log>>

\* Lines 266-274: the deferred close of the request stream, set last and
\* run first; its error is joined into err.
ClientDeferReq(c) ==
    /\ client[c].pc = "deferReq"
    /\ \E cerr \in {FALSE, client[c].deferReq} :
         client' = [client EXCEPT ![c] =
            [@ EXCEPT !.pc = "deferBody",
                      !.streamCloses = IF client[c].deferReq THEN @ + 1 ELSE @,
                      !.errs = @ \cup (IF cerr THEN {"closing Request"} ELSE {}),
                      !.closeErrs = @ \cup (IF cerr THEN {"closing Request"} ELSE {})]]
    /\ UNCHANGED <<endpoint, transport, mux, nextCall, hReq, handler, hResp, log>>

\* Lines 259-265: the deferred close of the response body; its error is
\* joined into err.  The callable returns.
ClientDeferBody(c) ==
    /\ client[c].pc = "deferBody"
    /\ \E cerr \in {FALSE, client[c].deferBody} :
         client' = [client EXCEPT ![c] =
            [@ EXCEPT !.pc = "returned",
                      !.bodyCloses = IF client[c].deferBody THEN @ + 1 ELSE @,
                      !.errs = @ \cup (IF cerr THEN {"Body.Close"} ELSE {}),
                      !.closeErrs = @ \cup (IF cerr THEN {"Body.Close"} ELSE {})]]
    /\ UNCHANGED <<endpoint, transport, mux, nextCall, hReq, handler, hResp, log>>

\* The call is over (the callable returned, or the other client's exchange
\* was answered) and its handler run, if any, has ended: its frame, stream
\* and body are dropped, and the next call may start.
Finished(c) ==
    /\ \/ client[c].pc = "returned"
       \/ client[c].pc = "foreign"
    /\ handler[c].pc \in {"idle", "done"}

Release(c) ==
    /\ c = nextCall
    /\ Finished(c)
    /\ nextCall' = c + 1
    /\ client' = [client EXCEPT ![c] = ClientInit]
    /\ hReq' = [hReq EXCEPT ![c] = NoExchange]
    /\ handler' = [handler EXCEPT ![c] = HandlerInit]
    /\ hResp' = [hResp EXCEPT ![c] = WriterInit]
    /\ log' = [log EXCEPT ![c] = <<>>]
    /\ UNCHANGED <<endpoint, transport, mux>>

(***************************************************************************)
(* Specification                                                           *)
(***************************************************************************)

Next ==
    \/ Register
    \/ \E c \in CallIds :
         \/ InboundExchange(c)
         \/ HandlerDecode(c)
         \/ HandlerValidate(c)
         \/ HandlerInvoke(c)
         \/ HandlerEncode(c)
         \/ HandlerSend(c)
         \/ Call(c)
         \/ ClientEncode(c)
         \/ ClientBuild(c)
         \/ ClientDoFail(c)
         \/ ClientDoSend(c)
         \/ CtxCancel(c)
         \/ ClientDoCanceled(c)
         \/ ClientDoReturn(c)
         \/ ClientStatus(c)
         \/ ClientContentType(c)
         \/ ClientDecode(c)
         \/ ClientDeferReq(c)
         \/ ClientDeferBody(c)
         \/ Release(c)

Spec == Init /\ [][Next]_vars

(***************************************************************************)
(* Construction: NewEndpoint, NewTransport and RemoteWithOrigin on inputs  *)
(* of every kind, followed by the calls of Next on what they returned.     *)
(***************************************************************************)

\* No Endpoint, no Transport yet.
NoEndpoint == [ok |-> FALSE, nil |-> TRUE]

NoTransport == [ok |-> FALSE, nil |-> TRUE]

\* Method strings: the three read-only methods, two others, and "get",
\* which is not http.MethodGet.
SetupMethods == {MethodGet, MethodOptions, MethodHead, MethodPost, "PUT", "get"}

\* Paths: with and without the leading slash, and one with a leading slash
\* and a malformed escape.
SetupPaths == {<<"/", "f", "o", "o">>,
               <<"/">>,
               <<"/", "%", "z", "z">>,
               <<"f", "o", "o">>,
               <<>>}

SetupOrigins == {<<"http", ":", "/", "/", "host">>,
                 <<"https", ":", "/", "/", "host">>,
                 <<"HTTP", ":", "/", "/", "host">>,
                 <<"http", ":", "/", "/">>,
                 <<"ftp", ":", "/", "/", "host">>,
                 <<"host">>,
                 <<"http", ":", "/", "/", "host", "/">>,
                 <<"http", ":", "/", "/", "host", "/", "p">>,
                 <<"http", ":", "/", "/", "host", "?", "q">>,
                 <<":", "/", "/", "host">>,
                 <<"http", ":", "/", "/", "h", " ", "t">>}

\* A panic ends the program.
Panicked ==
    \/ ~endpoint.ok /\ endpoint # NoEndpoint
    \/ "panic" \in DOMAIN transport

SetupInit ==
    /\ endpoint = NoEndpoint
    /\ transport = NoTransport
    /\ mux = {}
    /\ nextCall = 1
    /\ client = [c \in CallIds |-> ClientInit]
    /\ hReq = [c \in CallIds |-> NoExchange]
    /\ handler = [c \in CallIds |-> HandlerInit]
    /\ hResp = [c \in CallIds |-> WriterInit]
    /\ log = [c \in CallIds |-> <<>>]

\* The program constructs its Endpoint (NewEndpointJSON on a request type).
SetupNewEndpoint ==
    /\ endpoint = NoEndpoint
    /\ ~Panicked
    /\ \E m \in SetupMethods, p \in SetupPaths, T \in {"Req", "unit"} :
         endpoint' = NewEndpoint(m, p, NewCodecJSON("Resp"), NewCodecJSON(T))
    /\ UNCHANGED <<transport, mux, nextCall, client, hReq, handler, hResp, log>>

\* The program constructs a Transport for Remote.
SetupNewTransport ==
    /\ transport = NoTransport
    /\ ~Panicked
    /\ \E origin \in SetupOrigins :
         transport' = NewTransport(origin, "custom", Cookies)
    /\ UNCHANGED <<endpoint, mux, nextCall, client, hReq, handler, hResp, log>>

\* The program takes the callable from RemoteWithOrigin.
SetupRemoteWithOrigin ==
    /\ endpoint.ok
    /\ transport = NoTransport
    /\ ~Panicked
    /\ \E origin \in SetupOrigins :
         transport' = RemoteWithOrigin(origin)
    /\ UNCHANGED <<endpoint, mux, nextCall, client, hReq, handler, hResp, log>>

SetupNext ==
    \/ SetupNewEndpoint
    \/ SetupNewTransport
    \/ SetupRemoteWithOrigin
    \/ Next

SetupSpec == SetupInit /\ [][SetupNext]_vars

(***************************************************************************)
(* Concurrency: the host's dispatcher and the callers run the handler and  *)
(* the callable for several exchanges at once, their steps interleaved in  *)
(* any order, on one Endpoint and one Transport.                           *)
(***************************************************************************)

\* The Endpoints of the concurrent runs: NewEndpointJSON on a Validable
\* request, one read-only and one state changing.
ConcEndpoints ==
    {e \in Endpoints : /\ e.method \in {MethodGet, MethodPost}
                       /\ e.resc = NewCodecJSON("Resp")
                       /\ e.reqc = NewCodecJSON("VReq")}

ConcInit ==
    /\ endpoint \in ConcEndpoints
    /\ transport = NewTransport(Origin, "nil", Cookies)
    /\ mux = {}
    /\ nextCall = 1
    /\ client = [c \in CallIds |-> ClientInit]
    /\ hReq = [c \in CallIds |-> NoExchange]
    /\ handler = [c \in CallIds |-> HandlerInit]
    /\ hResp = [c \in CallIds |-> WriterInit]
    /\ log = [c \in CallIds |-> <<>>]

\* The requests of the concurrent calls.
ConcRequests ==
    {r \in ValuesOf(ReqT) : r.s \in {<<"r", "e", "q">>, <<"\"", "\\", "?">>}}

\* Call ids are given in the order the exchanges start.
Started(c) == IF c = 1 THEN TRUE ELSE client[c - 1].pc # "idle"

\* A caller calls the callable while other calls are in flight.
ConcCall(c) ==
    /\ client[c].pc = "idle"
    /\ Started(c)
    /\ endpoint.ok
    /\ transport.ok
    /\ \E r \in ConcRequests :
         client' = [client EXCEPT ![c].pc = "encode", ![c].req = r]
    /\ UNCHANGED <<endpoint, transport, mux, nextCall, hReq, handler, hResp, log>>

\* Another client's exchange arrives while other exchanges are in flight.
ConcInboundExchange(c) ==
    /\ client[c].pc = "idle"
    /\ Started(c)
    /\ endpoint.ok
    /\ Pattern(endpoint) \in mux
    /\ \E x \in ForeignExchanges :
         hReq' = [hReq EXCEPT ![c] =
            [method  |-> endpoint.method,
             url     |-> URLParse(endpoint.path \o
                                  (IF x.rawQuery = <<>> THEN <<>>
                                   ELSE <<"?">> \o x.rawQuery)),
             hasBody |-> x.body # <<>>,
             body    |-> x.body,
             header  |-> endpoint.reqc.ContentType,
             cookies |-> <<>>]]
    /\ client' = [client EXCEPT ![c].pc = "foreign"]
    /\ handler' = [handler EXCEPT ![c].pc = "decode"]
    /\ UNCHANGED <<endpoint, transport, mux, nextCall, hResp, log>>

ConcNext ==
    \/ Register
    \/ \E c \in CallIds :
         \/ ConcInboundExchange(c)
         \/ HandlerDecode(c)
         \/ HandlerValidate(c)
         \/ HandlerInvoke(c)
         \/ HandlerEncode(c)
         \/ HandlerSend(c)
         \/ ConcCall(c)
         \/ ClientEncode(c)
         \/ ClientBuild(c)
         \/ ClientDoFail(c)
         \/ ClientDoSend(c)
         \/ CtxCancel(c)
         \/ ClientDoCanceled(c)
         \/ ClientDoReturn(c)
         \/ ClientStatus(c)
         \/ ClientContentType(c)
         \/ ClientDecode(c)
         \/ ClientDeferReq(c)
         \/ ClientDeferBody(c)

ConcSpec == ConcInit /\ [][ConcNext]_vars

(***************************************************************************)
(* Progress of a client call: the goroutine that runs the callable keeps   *)
(* running it, and Do returns once the context of its request is canceled. *)
(* Nothing makes the server answer or the caller cancel.                   *)
(***************************************************************************)

\* One read-only and one state changing Endpoint for each of two request
\* codecs, the JSON codec and one whose Co and streams can fail.
LiveEndpoints ==
    {e \in Endpoints : /\ e.method \in {MethodGet, MethodPost}
                       /\ e.resc = NewCodecJSON("Resp")
                       /\ e.reqc \in {NewCodecJSON("Req"), TextCodec("Req", FALSE)}}

LiveInit ==
    /\ endpoint \in LiveEndpoints
    /\ transport = NewTransport(Origin, "nil", Cookies)
    /\ mux = {}
    /\ nextCall = 1
    /\ client = [c \in CallIds |-> ClientInit]
    /\ hReq = [c \in CallIds |-> NoExchange]
    /\ handler = [c \in CallIds |-> HandlerInit]
    /\ hResp = [c \in CallIds |-> WriterInit]
    /\ log = [c \in CallIds |-> <<>>]

\* The steps the callable takes by itself.
ClientStep(c) ==
    \/ ClientEncode(c)
    \/ ClientBuild(c)
    \/ ClientDoCanceled(c)
    \/ ClientStatus(c)
    \/ ClientContentType(c)
    \/ ClientDecode(c)
    \/ ClientDeferReq(c)
    \/ ClientDeferBody(c)

\* Calls are made one after the other, so at most one callable is running.
LiveSpec ==
    LiveInit /\ [][Next]_vars /\ WF_vars(\E c \in CallIds : ClientStep(c))

(***************************************************************************)
(* Properties                                                              *)
(***************************************************************************)

\* The call has returned to its caller.
Returned(c) == client[c].pc = "returned"

\* The callable built the exchange of call c.
Built(c) == client[c].pc \notin {"idle", "foreign", "encode", "build"}
            /\ hReq[c] # NoExchange

\* Do returned a response to call c.
Received(c) == client[c].hResp.StatusCode # 0

\* Do returned the handler's response and its body reads in full.
Delivered(c) == Received(c) /\ ~client[c].hResp.broken

\* The handler of exchange c invoked the procedure, which returned no error.
ProcOK(c) == handler[c].procCalls = 1 /\ handler[c].procErr = NoError

C2_IdempotentEncoding ==
    \A c \in CallIds :
        endpoint.method \in {MethodGet, MethodOptions, MethodHead} =>
            /\ Built(c) =>
                 LET pairs == ParseQuery(hReq[c].url.rawQuery) IN
                 /\ ~hReq[c].hasBody
                 /\ hReq[c].body = <<>>
                 /\ Len(pairs) = 1
                 /\ pairs[1].key = QueryKey
                 /\ Dec(endpoint.reqc, pairs[1].val).ok
                 /\ Dec(endpoint.reqc, pairs[1].val).val = client[c].req
            /\ handler[c].decoded =>
                 /\ handler[c].channel = "query"
                 /\ handler[c].req =
                        Dec(endpoint.reqc,
                            QueryGet(ParseQuery(hReq[c].url.rawQuery), QueryKey)).val
                 /\ Built(c) => handler[c].req = client[c].req

\* A GET handler decoded a request made of the characters a query string
\* gives a meaning to.
C2_Witness ==
    \E c \in CallIds :
        /\ endpoint.method = MethodGet
        /\ Built(c)
        /\ handler[c].decoded
        /\ handler[c].req.s = <<" ", "&", "=", "+", "%">>

\* C3: state-changing encoding.  On an endpoint whose method is not GET,
\* OPTIONS or HEAD the exchange a call builds carries the encoded request
\* as its body and no query parameter, and the handler decodes the body
\* only; every exchange a call builds carries the payload in exactly one
\* of the two channels, the one the handler reads.
C3_StateChangingEncoding ==
    \A c \in CallIds :
        /\ (Built(c) /\ endpoint.method \notin {MethodGet, MethodOptions, MethodHead}) =>
             /\ hReq[c].hasBody
             /\ hReq[c].body = Co(endpoint.reqc, client[c].req)
             /\ hReq[c].url.rawQuery = <<>>
        /\ (handler[c].decoded
                /\ endpoint.method \notin {MethodGet, MethodOptions, MethodHead}) =>
             /\ handler[c].channel = "body"
             /\ handler[c].req = Dec(endpoint.reqc, hReq[c].body).val
        /\ Built(c) =>
             /\ hReq[c].hasBody # (ParseQuery(hReq[c].url.rawQuery) # <<>>)
             /\ handler[c].channel # "" =>
                    handler[c].channel = (IF hReq[c].hasBody THEN "body" ELSE "query")

\* A POST handler decoded the body of a call's exchange.
C3_Witness ==
    \E c \in CallIds :
        /\ endpoint.method = MethodPost
        /\ Built(c)
        /\ hReq[c].hasBody
        /\ handler[c].decoded
        /\ handler[c].channel = "body"
        /\ handler[c].req.s = <<"\"", "\\", "?">>

\* C4: validation gate.  When the decoded request is Validable and its
\* Validate fails, the procedure is never invoked and the response has
\* status 400; the procedure is invoked only after the decode succeeded
\* and the validation, when there is one, succeeded.
C4_ValidationGate ==
    \A c \in CallIds :
        /\ handler[c].invalid =>
             /\ handler[c].procCalls = 0
             /\ handler[c].pc = "done"
             /\ hResp[c].status = StatusBadRequest
        /\ handler[c].procCalls > 0 =>
             /\ handler[c].decoded
             /\ handler[c].validated
             /\ ~handler[c].invalid
             /\ SubSeq(handler[c].steps, 1, 3) = <<"decode", "validate", "invoke">>

\* Validate failed on a request that decoded.
C4_Witness ==
    \E c \in CallIds :
        /\ handler[c].invalid
        /\ handler[c].decoded
        /\ hResp[c].status = StatusBadRequest

\* C5 as stated: error mapping.  A procedure error that is an
\* ErrorResponse with status s and message m gives a response with status
\* s whose body is exactly m; any other error gives status 400 and the
\* standard text of 400 as body.
C5_AsStated ==
    \A c \in CallIds :
        (handler[c].pc = "done" /\ handler[c].procErr # NoError) =>
            IF handler[c].procErr.kind = "ErrorResponse"
            THEN /\ hResp[c].status = handler[c].procErr.Status
                 /\ hResp[c].body = handler[c].procErr.Message
            ELSE /\ hResp[c].status = StatusBadRequest
                 /\ hResp[c].body = <<"Bad Request">>

\* C5, amended: error mapping.  A procedure error that is an ErrorResponse
\* with status s and message m gives a response with status s whose body
\* is m followed by a line feed, or the standard text of s followed by a
\* line feed when m is empty; any other error gives status 400 and the
\* standard text of 400 followed by a line feed.
C5_ErrorMapping ==
    \A c \in CallIds :
        (handler[c].pc = "done" /\ handler[c].procErr # NoError) =>
            IF handler[c].procErr.kind = "ErrorResponse"
            THEN /\ hResp[c].status = handler[c].procErr.Status
                 /\ hResp[c].body =
                        (IF handler[c].procErr.Message = <<>>
                         THEN <<StatusText(handler[c].procErr.Status)>>
                         ELSE handler[c].procErr.Message) \o <<"\n">>
            ELSE /\ hResp[c].status = StatusBadRequest
                 /\ hResp[c].body = <<"Bad Request", "\n">>

\* The procedure returned an ErrorResponse with 404 and "missing".
C5_Witness ==
    \E c \in CallIds :
        /\ handler[c].pc = "done"
        /\ handler[c].procErr = [kind |-> "ErrorResponse", Status |-> 404,
                                 Message |-> <<"missing">>]
        /\ hResp[c].status = 404
        /\ hResp[c].body = <<"missing", "\n">>

\* C6 as stated: status interpretation.  Success is exactly status 200.
\* For a response with any other status the callable never runs the
\* response codec's Dec and returns the zero Response with a WireError
\* whose Code is the status and whose Msg is the full body.
C6_AsStated ==
    \A c \in CallIds :
        /\ client[c].decRuns > 0 => client[c].hResp.StatusCode = StatusOK
        /\ (Returned(c) /\ Received(c) /\ client[c].hResp.StatusCode # StatusOK) =>
             /\ client[c].decRuns = 0
             /\ client[c].resp = Zero(RespT)
             /\ "WireError" \in client[c].errs
             /\ client[c].wire = [Code |-> client[c].hResp.StatusCode,
                                  Msg  |-> client[c].hResp.Body]

\* C6, amended: status interpretation.  Success is exactly status 200.
\* For a response with any other status the callable never runs the
\* response codec's Dec and returns the zero Response; when the body reads
\* in full the error it returns holds a WireError whose Code is the status
\* and whose Msg is the full body, and when reading the body fails it
\* holds the read error and no WireError.
C6_StatusInterpretation ==
    \A c \in CallIds :
        /\ client[c].decRuns > 0 => client[c].hResp.StatusCode = StatusOK
        /\ (Returned(c) /\ Received(c) /\ client[c].hResp.StatusCode # StatusOK) =>
             /\ client[c].decRuns = 0
             /\ client[c].resp = Zero(RespT)
             /\ IF client[c].hResp.broken
                THEN /\ "read response body" \in client[c].errs
                     /\ "WireError" \notin client[c].errs
                     /\ client[c].wire = NoWireError
                ELSE /\ "WireError" \in client[c].errs
                     /\ client[c].wire = [Code |-> client[c].hResp.StatusCode,
                                          Msg  |-> client[c].hResp.Body]

\* A call returned the WireError of a 201 response.
C6_Witness ==
    \E c \in CallIds :
        /\ Returned(c)
        /\ client[c].hResp.StatusCode = 201
        /\ client[c].wire = [Code |-> 201, Msg |-> <<"missing", "\n">>]
        /\ client[c].decRuns = 0

\* C7: Content-Type enforcement.  For a response with status 200 whose
\* Content-Type is not the response codec's ContentType the callable
\* returns an error and the zero Response, and never runs the response
\* codec's Dec on the body.
C7_ContentTypeEnforcement ==
    \A c \in CallIds :
        (/\ Received(c)
         /\ client[c].hResp.StatusCode = StatusOK
         /\ client[c].hResp.ContentType # endpoint.resc.ContentType) =>
            /\ client[c].decRuns = 0
            /\ client[c].pc \notin {"wait", "status", "contentType"} =>
                 /\ "Content-Type" \in client[c].errs
                 /\ client[c].resp = Zero(RespT)

\* A call returned the Content-Type error on a 200 response.
C7_Witness ==
    \E c \in CallIds :
        /\ Returned(c)
        /\ client[c].hResp.StatusCode = StatusOK
        /\ client[c].hResp.ContentType = TextContentType
        /\ endpoint.resc.ContentType = JSONContentType
        /\ "Content-Type" \in client[c].errs

\* C8: client resource cleanup.  When a call that encoded its request
\* returns, on any exit path, the request stream has been closed if it is
\* a closer and the request codec does not declare KeepOpen, and the
\* response body has been closed if a response was received and the
\* response codec does not declare KeepOpen.
C8_ClientCleanup ==
    \A c \in CallIds :
        (Returned(c) /\ "encoding request" \notin client[c].errs) =>
            /\ (endpoint.reqc.closer /\ ~endpoint.reqc.KeepOpen) =>
                 (client[c].streamCloses > 0 \/ client[c].bodyClosedByDo)
            /\ (Received(c) /\ ~endpoint.resc.KeepOpen) =>
                 client[c].bodyCloses > 0

\* C9: close errors are never dropped.  When a call returns, every error
\* that a Close of the response body or of the request stream returned
\* during the call is held by the error the call returns.
C9_CloseErrorsKept ==
    \A c \in CallIds :
        Returned(c) => client[c].closeErrs \subseteq client[c].errs

\* C10: single best-effort exchange.  A call makes at most one round trip,
\* a failed round trip is returned wrapped with the zero Response and
\* without a second attempt, and the procedure is invoked at most once for
\* the call.
C10_SingleExchange ==
    \A c \in CallIds :
        /\ client[c].roundTrips <= 1
        /\ handler[c].procCalls <= 1
        /\ client[c].pc \in {"encode", "build", "do"} => client[c].roundTrips = 0
        /\ (client[c].roundTrips = 1 /\ ~Received(c)) =>
             \/ client[c].pc = "wait"
             \/ /\ Returned(c)
                /\ "issuing request" \in client[c].errs
                /\ client[c].resp = Zero(RespT)

\* A round trip failed and the call returned its error after one attempt.
C10_Witness ==
    \E c \in CallIds :
        /\ Returned(c)
        /\ client[c].errs = {"issuing request"}
        /\ client[c].roundTrips = 1
        /\ handler[c].procCalls = 0

\* The methods NewEndpoint takes as read-only.
ReadOnlyMethods == {MethodGet, MethodOptions, MethodHead}

\* C11: the stateChanging flag of an Endpoint is a function of its method
\* alone, false exactly for GET, OPTIONS and HEAD and true for every other
\* method string, and once the Endpoint is constructed no step of
\* Register, Remote, RemoteWithOrigin, a handler run or a client call
\* changes its method, path, flag or codecs.
C11_StateChangingFixed ==
    /\ [](endpoint.ok =>
            (endpoint.stateChanging <=> endpoint.method \notin ReadOnlyMethods))
    /\ [][endpoint.ok => endpoint' = endpoint]_vars

\* A handler of an Endpoint constructed with the method "get", which is
\* not http.MethodGet, read the body of a call's exchange.
C11_Witness ==
    \E c \in CallIds :
        /\ endpoint.ok
        /\ endpoint.method = "get"
        /\ endpoint.stateChanging
        /\ Built(c)
        /\ handler[c].decoded
        /\ handler[c].channel = "body"

\* A host that names a domain.
ValidDomain(host) == host # <<>> /\ Index(host, " ") = 0

\* C12: Transport origin validation.  A Transport is returned only for an
\* origin that parses as an absolute URL with the scheme http or https, a
\* valid domain, an empty path and an empty query; for every other origin
\* NewTransport returns an error that wraps ErrBadOrigin and no Transport,
\* and RemoteWithOrigin panics.
C12_OriginValidation ==
    /\ transport.ok =>
         LET u == URLParse(transport.origin) IN
         /\ u.ok
         /\ u.scheme \in {"http", "https"}
         /\ ValidDomain(u.host)
         /\ u.path = <<>>
         /\ u.rawQuery = <<>>
    /\ (~transport.ok /\ transport # NoTransport) =>
         "ErrBadOrigin" \in transport.err

\* C13: configuration errors occur only at construction.  Every Endpoint
\* that Register or Remote operates on was constructed and its path has a
\* leading slash, and no client call fails because the path or the origin
\* is malformed.
C13_ConfigErrorsAtConstruction ==
    /\ endpoint.ok => HasPrefix(endpoint.path, <<"/">>)
    /\ mux # {} => endpoint.ok
    /\ \A c \in CallIds :
         /\ client[c].pc # "idle" => endpoint.ok
         /\ client[c].errs \cap {"invalid URL", "no Host in request URL"} = {}

\* C14: unit codec.  The JSON codec of the unit type encodes to an empty
\* source without failing, and its Dec returns the unit value without an
\* error and without reading, whatever the source holds: an empty query
\* value, a malformed body, a response body that cannot be read.
C14_UnitCodec ==
    LET unit == NewCodecJSON("unit") IN
    /\ ~DecReads(unit)
    /\ \A c \in CallIds :
         /\ endpoint.reqc = unit =>
              /\ client[c].pc \notin {"idle", "foreign", "encode"} =>
                   /\ client[c].streamUp = <<>>
                   /\ "encoding request" \notin client[c].errs
              /\ handler[c].steps # <<>> =>
                   /\ handler[c].decoded
                   /\ handler[c].req = Zero("unit")
                   /\ log[c] # <<>> => log[c][1].msg # "Bad request"
         /\ endpoint.resc = unit =>
              /\ handler[c].pc = "send" => handler[c].streamDown = <<>>
              /\ (handler[c].pc = "done" /\ hResp[c].status = StatusOK
                     /\ handler[c].procErr = NoError) =>
                   hResp[c].body = <<>>
              /\ client[c].decRuns > 0 =>
                   /\ client[c].decFault = FALSE
                   /\ client[c].pc \in {"deferReq", "deferBody", "returned"} =>
                        /\ "decoding response" \notin client[c].errs
                        /\ client[c].resp = Zero("unit")

\* On a POST endpoint with the unit codec on both sides, the handler
\* decoded the malformed body of another client's exchange and answered
\* 200 with an empty body.
C14_Witness ==
    \E c \in CallIds :
        /\ endpoint.method = MethodPost
        /\ endpoint.reqc = NewCodecJSON("unit")
        /\ endpoint.resc = NewCodecJSON("unit")
        /\ hReq[c].body = <<"{">>
        /\ handler[c].decoded
        /\ handler[c].pc = "done"
        /\ hResp[c].status = StatusOK
        /\ hResp[c].body = <<>>
        /\ ~hResp[c].truncated

\* The response of an exchange that http.Error answered with 400 and msg.
BadRequestResponse(msg) ==
    [status |-> StatusBadRequest, contentType |-> TextContentType,
     body |-> <<msg, "\n">>, statusWrites |-> 1, truncated |-> FALSE]

\* The handler's run of exchange c ended at the step named.
FailedAt(c, step) ==
    /\ handler[c].pc = "done"
    /\ handler[c].steps # <<>>
    /\ handler[c].steps[Len(handler[c].steps)] = step

\* C15: client input errors do not leak.  Every exchange that fails at
\* the request decode gets the same response, status 400 with one fixed
\* message, whatever the decode error is, and so does every exchange that
\* fails at the validation; hence two such exchanges get identical
\* responses.  The error's detail is in the server log only.
C15_NoLeak ==
    /\ \A c \in CallIds :
         /\ FailedAt(c, "decode") =>
              /\ hResp[c] = BadRequestResponse("Unable to decode request.")
              /\ Len(log[c]) = 1
              /\ log[c][1].msg = "Bad request"
              /\ log[c][1].detail \in {"EOF", "unexpected EOF", "invalid character", "codec"}
         /\ FailedAt(c, "validate") =>
              /\ hResp[c] = BadRequestResponse("Invalid request.")
              /\ Len(log[c]) = 1
              /\ log[c][1].msg = "Invalid request"
    /\ \A c, d \in CallIds :
         \/ FailedAt(c, "decode") /\ FailedAt(d, "decode")
         \/ FailedAt(c, "validate") /\ FailedAt(d, "validate")
         => hResp[c] = hResp[d]

\* Two exchanges in flight failed at the decode with different errors, a
\* truncated document and an invalid character; only the logs differ.
C15_Witness ==
    \E c, d \in CallIds :
        /\ FailedAt(c, "decode")
        /\ FailedAt(d, "decode")
        /\ log[c][1].detail = "unexpected EOF"
        /\ log[d][1].detail = "invalid character"
        /\ hResp[c] = hResp[d]

\* The handler's steps, in the order of the code.
HandlerSteps == <<"decode", "validate", "invoke", "encode", "send">>

\* C16: handler state machine.  The steps an exchange has run are a
\* prefix of decode, validate, invoke, encode, send; the status is written
\* once, by the step that ends the run: 400 by a failed decode or
\* validation, the mapped status by a procedure error, 500 by a failed
\* encoding, 200 by send; and once the status is written no step runs and
\* nothing changes the response of the exchange (a copy or close error of
\* send is in the log only).
C16_HandlerStateMachine ==
    /\ [](\A c \in CallIds :
            LET h == handler[c]
                n == Len(h.steps)
            IN  /\ h.steps = SubSeq(HandlerSteps, 1, n)
                /\ h.pc \notin {"idle", "done"} => h.pc = HandlerSteps[n + 1]
                /\ h.pc # "done" => hResp[c] = WriterInit
                /\ h.pc = "done" =>
                     /\ n >= 1
                     /\ hResp[c].statusWrites = 1
                     /\ hResp[c].status =
                            CASE n = 1 -> StatusBadRequest
                              [] n = 2 -> StatusBadRequest
                              [] n = 3 -> ErrorStatus(h.procErr)
                              [] n = 4 -> StatusInternalServerError
                              [] n = 5 -> StatusOK
                     /\ n = 1 => ~h.decoded
                     /\ n = 2 => h.invalid
                     /\ n = 3 => h.procErr # NoError
                     /\ n >= 4 => h.procErr = NoError /\ h.procCalls = 1)
    /\ [][\A c \in CallIds :
            (handler[c].pc = "done" /\ handler'[c] # HandlerInit) =>
                /\ handler'[c] = handler[c]
                /\ hResp'[c] = hResp[c]
                /\ log'[c] = log[c]]_vars

\* The copy of send failed after status 200 was committed: the status
\* stays 200 and the error is in the log.
C16_Witness ==
    \E c \in CallIds :
        /\ handler[c].pc = "done"
        /\ handler[c].steps = HandlerSteps
        /\ hResp[c].status = StatusOK
        /\ hResp[c].truncated
        /\ \E i \in 1..Len(log[c]) : log[c][i].msg = "streamDown Copy"

\* All that the protocol layer holds for exchange c.
Frame(c) == <<client[c], hReq[c], handler[c], hResp[c], log[c]>>

\* C17: statelessness under concurrency.  With the steps of several
\* handler runs and client calls interleaved in any order, no step writes
\* the Endpoint or the Transport, a step of one exchange leaves all that
\* belongs to the other exchanges as it is, and what an exchange sends,
\* decodes, computes, answers and returns is a function of its own request
\* and of its own faults, as when it runs alone.
C17_Stateless ==
    /\ [][/\ endpoint' = endpoint
          /\ transport' = transport
          /\ \A c, d \in CallIds :
               (c # d /\ Frame(c)' # Frame(c)) => Frame(d)' = Frame(d)]_vars
    /\ [](\A c \in CallIds :
            /\ Built(c) =>
                 hReq[c] = [reqCtor(endpoint, transport,
                                    Co(endpoint.reqc, client[c].req))
                              EXCEPT !.header = endpoint.reqc.ContentType,
                                     !.cookies = transport.cookies]
            /\ handler[c].decoded =>
                 /\ handler[c].req =
                        Dec(endpoint.reqc, HandlerSource(endpoint, hReq[c])).val
                 /\ Built(c) => handler[c].req = client[c].req
            /\ (handler[c].procCalls = 1 /\ handler[c].procErr = NoError) =>
                 handler[c].procResp = ProcValue(RespT, handler[c].req)
            /\ (handler[c].pc = "done" /\ handler[c].steps = HandlerSteps
                   /\ ~hResp[c].truncated) =>
                 hResp[c].body = Co(endpoint.resc, handler[c].procResp)
            /\ Received(c) =>
                 /\ client[c].hResp.StatusCode = hResp[c].status
                 /\ client[c].hResp.ContentType = hResp[c].contentType
                 /\ client[c].hResp.Body = hResp[c].body
            /\ (Returned(c) /\ client[c].errs = {}) =>
                 client[c].resp = ProcValue(RespT, client[c].req))

\* While the handler of one call is at the procedure, another call with a
\* different request, whose handler ran in between, has returned the
\* response of its own request.
C17_Witness ==
    \E c, d \in CallIds :
        /\ c # d
        /\ client[c].pc = "wait"
        /\ handler[c].pc = "invoke"
        /\ Returned(d)
        /\ client[d].errs = {}
        /\ client[d].req # client[c].req
        /\ client[d].resp = ProcValue(RespT, client[d].req)

\* What every call whose context was canceled before Do returned a
\* response has when it returns: an error, and no decoded Response.
CanceledOutcome(c) ==
    (Returned(c) /\ client[c].ctx = "canceled") =>
        /\ client[c].errs # {}
        /\ client[c].resp = Zero(RespT)
        /\ client[c].decRuns = 0

\* The context of the running call is canceled and the call has not
\* returned; a call whose context is canceled has returned.
CancelPending == \E c \in CallIds : client[c].ctx = "canceled" /\ ~Returned(c)

CancelReturned == \E c \in CallIds : client[c].ctx = "canceled" /\ Returned(c)

\* C18 as stated: cancellation on the client.  A call whose context is
\* canceled before the response headers are received returns, with an
\* error that carries the cancellation and without a decoded Response.
C18_AsStated ==
    /\ CancelPending ~> CancelReturned
    /\ [](\A c \in CallIds :
            /\ CanceledOutcome(c)
            /\ (Returned(c) /\ client[c].ctx = "canceled") =>
                 "context canceled" \in client[c].errs)

\* C18, amended: cancellation on the client.  A call whose context is
\* canceled before the response headers are received returns, with an
\* error and without a decoded Response; the error carries the
\* cancellation unless the call failed before Do, at the encoding of the
\* request or at the construction of the exchange.
C18_Cancellation ==
    /\ CancelPending ~> CancelReturned
    /\ [](\A c \in CallIds :
            /\ CanceledOutcome(c)
            /\ (/\ Returned(c)
                /\ client[c].ctx = "canceled"
                /\ "encoding request" \notin client[c].errs
                /\ "converting request to HTTP" \notin client[c].errs) =>
                 /\ "context canceled" \in client[c].errs
                 /\ "issuing request" \in client[c].errs)

\* A call on a read-only Endpoint was canceled while Do waited for the
\* handler, which had not answered, and returned the context's error.
C18_Witness ==
    \E c \in CallIds :
        /\ endpoint.method = MethodGet
        /\ Returned(c)
        /\ client[c].ctx = "canceled"
        /\ client[c].roundTrips = 1
        /\ handler[c].pc = "invoke"
        /\ client[c].errs = {"issuing request", "context canceled"}

\* C19: a procedure failure is never seen as success.  On every Endpoint
\* and for every error the procedure returns, plain or an ErrorResponse
\* of any status and message, the call of that exchange returns an error
\* and the zero Response, and never runs the response codec's Dec.
C19_FailureNeverSuccess ==
    \A c \in CallIds :
        (Returned(c) /\ Received(c) /\ handler[c].procErr # NoError) =>
            /\ client[c].errs # {}
            /\ client[c].resp = Zero(RespT)
            /\ client[c].decRuns = 0

\* C20: KeepOpen is honoured on every path.  With KeepOpen declared by
\* the response codec no path of a call closes the response body, with
\* KeepOpen declared by the request codec the call never closes the
\* request stream, and without KeepOpen a call that received a response
\* has closed its body exactly once when it returns.
C20_KeepOpenHonoured ==
    \A c \in CallIds :
        /\ endpoint.resc.KeepOpen => client[c].bodyCloses = 0
        /\ endpoint.reqc.KeepOpen => client[c].streamCloses = 0
        /\ (Returned(c) /\ Received(c) /\ ~endpoint.resc.KeepOpen) =>
             client[c].bodyCloses = 1

====
